---- MODULE Spec2Model ----
(***************************************************************************)
(* Housing price inference service (app/main.py): model loading, the two   *)
(* prediction endpoints, value transformation and presentation.            *)
(*                                                                         *)
(* Text is a sequence of one-character strings.  Feature values are        *)
(* integers in units of 10^-FracDigits.  Money and raw model outputs are   *)
(* exact decimals (Dec): a sign, a little-endian sequence of base-10^4     *)
(* limbs and the number of limbs that lie after the decimal point.         *)
(***************************************************************************)
EXTENDS Integers, Sequences, FiniteSets, TLC

\* Python's None
None == [tag |-> "None"]

\* ------------------------------------------------------------------ text

Whitespace == {" ", "\t", "\n"}

DigitChars == <<"0", "1", "2", "3", "4", "5", "6", "7", "8", "9">>

Digits == {DigitChars[i] : i \in 1..10}

DigitVal(c) == (CHOOSE i \in 1..10 : DigitChars[i] = c) - 1

RECURSIVE Concat(_)
Concat(ss) == IF ss = <<>> THEN <<>> ELSE Head(ss) \o Concat(Tail(ss))

RECURSIVE LStrip(_)
LStrip(s) ==
  IF s # <<>> /\ Head(s) \in Whitespace THEN LStrip(Tail(s)) ELSE s

RECURSIVE RStrip(_)
RStrip(s) ==
  IF s # <<>> /\ s[Len(s)] \in Whitespace
  THEN RStrip(SubSeq(s, 1, Len(s) - 1))
  ELSE s

\* str.strip()
Strip(s) == RStrip(LStrip(s))

\* str.replace(old, new) for one-character old and new
Replace(s, old, new) == [i \in 1..Len(s) |-> IF s[i] = old THEN new ELSE s[i]]

\* str.split(sep): "" splits to [""], "a,,b" to ["a", "", "b"]
RECURSIVE SplitFrom(_, _, _)
SplitFrom(s, sep, cur) ==
  IF s = <<>> THEN <<cur>>
  ELSE IF Head(s) = sep
       THEN <<cur>> \o SplitFrom(Tail(s), sep, <<>>)
       ELSE SplitFrom(Tail(s), sep, Append(cur, Head(s)))

Split(s, sep) == SplitFrom(s, sep, <<>>)

RECURSIVE Pow10(_)
Pow10(n) == IF n = 0 THEN 1 ELSE 10 * Pow10(n - 1)

\* Decimal digits of a natural number, most significant first
RECURSIVE NatDigits(_)
NatDigits(n) ==
  IF n < 10 THEN <<DigitChars[n + 1]>>
  ELSE Append(NatDigits(n \div 10), DigitChars[(n % 10) + 1])

RECURSIVE DigitsVal(_)
DigitsVal(ds) ==
  IF ds = <<>> THEN 0
  ELSE 10 * DigitsVal(SubSeq(ds, 1, Len(ds) - 1)) + DigitVal(ds[Len(ds)])

\* Fractional digits a feature value carries
FracDigits == 2

FeatureScale == Pow10(FracDigits)

\* ------------------------------------------------------------------ feature normaliser

\* float(token) on text over digits, sign, point and letters that spell no
\* float: [sign] digits [. digits] or [sign] . digits; anything else raises
\* ValueError.  The value is in units of 10^-FracDigits.
ParseFloat(tok) ==
  LET signed == tok # <<>> /\ tok[1] \in {"+", "-"}
      body == IF signed THEN Tail(tok) ELSE tok
      dots == {i \in 1..Len(body) : body[i] = "."}
      dot == IF dots = {} THEN Len(body) + 1 ELSE CHOOSE i \in dots : TRUE
      ip == SubSeq(body, 1, dot - 1)
      fp == SubSeq(body, dot + 1, Len(body))
      ok == /\ \A i \in 1..Len(body) : body[i] \in Digits \cup {"."}
            /\ Cardinality(dots) <= 1
            /\ Len(ip) + Len(fp) >= 1
      padded == SubSeq(fp \o [i \in 1..FracDigits |-> "0"], 1, FracDigits)
      mag == DigitsVal(ip) * FeatureScale + DigitsVal(padded)
  IN IF ok
     THEN [ok |-> TRUE, val |-> IF signed /\ tok[1] = "-" THEN 0 - mag ELSE mag]
     ELSE [ok |-> FALSE, val |-> 0]

\* The decimal text a client writes for a feature value (test_integration.py
\* writes "1.0,2.0,..."): sign, integer digits, point, FracDigits digits
NumToToken(v) ==
  LET mag == IF v < 0 THEN 0 - v ELSE v
      fr == NatDigits(mag % FeatureScale)
      zeros == [i \in 1..(FracDigits - Len(fr)) |-> "0"]
  IN (IF v < 0 THEN <<"-">> ELSE <<>>)
       \o NatDigits(mag \div FeatureScale) \o <<".">> \o zeros \o fr

RECURSIVE JoinWith(_, _)
JoinWith(toks, sep) ==
  IF toks = <<>> THEN <<>>
  ELSE IF Len(toks) = 1 THEN toks[1]
  ELSE toks[1] \o <<sep>> \o JoinWith(Tail(toks), sep)

\* PredictRequest: the eight named fields in declaration order
columns ==
  <<"MedInc", "HouseAge", "AveRooms", "AveBedrms",
    "Population", "AveOccup", "Latitude", "Longitude">>

NumFeatures == 8

\* Mutant of Normalise: semicolons are left in place
NormaliseCommasOnly(input) == Strip(input)

\* s = data.input.strip().replace(";", ",")
\* parts = [p.strip() for p in s.split(",") if p.strip() != ""]
RECURSIVE NonEmptyStripped(_)
NonEmptyStripped(ps) ==
  IF ps = <<>> THEN <<>>
  ELSE IF Strip(Head(ps)) # <<>>
       THEN <<Strip(Head(ps))>> \o NonEmptyStripped(Tail(ps))
       ELSE NonEmptyStripped(Tail(ps))

Normalise(input) == Replace(Strip(input), ";", ",")

\* Mutant of Parts: empty tokens are kept
PartsKeepingEmpty(input) ==
  LET ps == Split(Replace(Strip(input), ";", ","), ",")
  IN [i \in 1..Len(ps) |-> Strip(ps[i])]

Parts(input) == NonEmptyStripped(Split(Normalise(input), ","))

\* Mutant of FirstBad: no token is ever rejected
FirstBadIgnored(parts) == 0

\* nums = list(map(float, parts)): the first token float() rejects raises
FirstBad(parts) ==
  LET bad == {i \in 1..Len(parts) : ~ParseFloat(parts[i]).ok}
  IN IF bad = {} THEN 0 ELSE CHOOSE i \in bad : \A j \in bad : i <= j

Nums(parts) == [i \in 1..Len(parts) |-> ParseFloat(parts[i]).val]

\* Mutant of FrameFromNums: the cells are filled in reverse column order
FrameFromNumsReversed(nums) ==
  [i \in 1..Len(nums) |-> [name |-> columns[i], value |-> nums[Len(nums) + 1 - i]]]

\* pd.DataFrame([nums], columns=columns): one row, cells in column order
FrameFromNums(nums) == [i \in 1..Len(nums) |-> [name |-> columns[i], value |-> nums[i]]]

\* pd.DataFrame([req.dict()]): one row, cells in field-declaration order
FrameFromRecord(req) ==
  [i \in 1..NumFeatures |-> [name |-> columns[i], value |-> req[columns[i]]]]

\* ------------------------------------------------------------------ decimals

\* A float is modelled as an exact decimal [neg, m, fl]: m is the magnitude
\* as little-endian limbs in base 10^4, of which the first fl are fractional
\* (value = sum of m[i] * 10^(4 * (i - 1 - fl))).  The sign is kept apart
\* from the magnitude, as in a float, so that -0.0 exists.
LimbBase == Pow10(4)

RECURSIVE MulLimb(_, _, _)
MulLimb(m, d, carry) ==
  IF m = <<>>
  THEN IF carry = 0 THEN <<>> ELSE <<carry>>
  ELSE LET p == Head(m) * d + carry
       IN <<p % LimbBase>> \o MulLimb(Tail(m), d, p \div LimbBase)

RECURSIVE AddMag(_, _, _)
AddMag(x, y, carry) ==
  IF x = <<>> /\ y = <<>>
  THEN IF carry = 0 THEN <<>> ELSE <<carry>>
  ELSE LET a == IF x = <<>> THEN 0 ELSE Head(x)
           b == IF y = <<>> THEN 0 ELSE Head(y)
           s == a + b + carry
       IN <<s % LimbBase>>
            \o AddMag(IF x = <<>> THEN x ELSE Tail(x),
                      IF y = <<>> THEN y ELSE Tail(y), s \div LimbBase)

RECURSIVE MulMag(_, _)
MulMag(x, y) ==
  IF y = <<>> THEN <<>>
  ELSE AddMag(MulLimb(x, Head(y), 0), <<0>> \o MulMag(x, Tail(y)), 0)

\* x * y on floats
DecMul(x, y) ==
  [neg |-> x.neg # y.neg, m |-> MulMag(x.m, y.m), fl |-> x.fl + y.fl]

RECURSIVE LimbsVal(_)
LimbsVal(m) == IF m = <<>> THEN 0 ELSE Head(m) + LimbBase * LimbsVal(Tail(m))

RECURSIVE NatLimbs(_)
NatLimbs(n) == IF n = 0 THEN <<>> ELSE <<n % LimbBase>> \o NatLimbs(n \div LimbBase)

\* Mutant of Round2: the digits after the second decimal are cut off
Round2Truncating(x) ==
  [neg |-> x.neg,
   cents |-> LimbsVal(SubSeq(x.m, x.fl + 1, Len(x.m))) * 100
               + (IF x.fl = 0 \/ Len(x.m) < x.fl THEN 0 ELSE x.m[x.fl] \div 100)]

\* round(x, 2): the nearest multiple of 0.01, an exact tie to the even
\* neighbour, the sign kept (round(-0.001, 2) is -0.0).  The result is
\* [neg, cents].
Round2(x) ==
  LET limb(i) == IF i >= 1 /\ i <= Len(x.m) THEN x.m[i] ELSE 0
      top == limb(x.fl)
      lowZero == \A i \in 1..(x.fl - 1) : limb(i) = 0
      whole == LimbsVal(SubSeq(x.m, x.fl + 1, Len(x.m))) * 100
                 + (IF x.fl = 0 THEN 0 ELSE top \div 100)
      rest == IF x.fl = 0 THEN 0 ELSE top % 100
      up == \/ rest > 50
            \/ rest = 50 /\ ~lowZero
            \/ rest = 50 /\ lowZero /\ whole % 2 = 1
  IN [neg |-> x.neg, cents |-> IF up THEN whole + 1 ELSE whole]

\* float(v) of a value that has two decimals
DecOfRounded(r) ==
  [neg |-> r.neg,
   m |-> <<(r.cents % 100) * 100>> \o NatLimbs(r.cents \div 100),
   fl |-> 1]

\* The number a [neg, cents] value stands for, in cents (-0.0 = 0.0)
CentsVal(r) == IF r.neg THEN 0 - r.cents ELSE r.cents

\* A decimal from a count of units of 10^(-4 * fl)
DecOfUnits(n, fl) ==
  [neg |-> n < 0, m |-> NatLimbs(IF n < 0 THEN 0 - n ELSE n), fl |-> fl]

\* ------------------------------------------------------------------ presentation

\* Text built by an f-string is a sequence of fragments: each literal part
\* of the template is one fragment, an interpolated value contributes its
\* characters one by one.

\* Integer digits with a "," before every group of three
RECURSIVE Grouped(_)
Grouped(ds) ==
  IF Len(ds) <= 3 THEN ds
  ELSE Grouped(SubSeq(ds, 1, Len(ds) - 3)) \o <<",">> \o SubSeq(ds, Len(ds) - 2, Len(ds))

\* f"{v:,.2f}"
format_usd_en(v) ==
  LET fr == v.cents % 100
  IN (IF v.neg THEN <<"-">> ELSE <<>>)
       \o Grouped(NatDigits(v.cents \div 100))
       \o <<".", DigitChars[(fr \div 10) + 1], DigitChars[(fr % 10) + 1]>>

\* Mutant of format_eur_eu: the separators are replaced one after the other
\* without the placeholder
format_eur_euNoPlaceholder(v) ==
  Replace(Replace(format_usd_en(v), ",", "."), ".", ",")

\* s.replace(",", "X").replace(".", ",").replace("X", ".")
format_eur_eu(v) ==
  Replace(Replace(Replace(format_usd_en(v), ",", "X"), ".", ","), "X", ".")

\* html.escape(s)
EscapeChar(c) ==
  CASE c = "&" -> "&amp;"
    [] c = "<" -> "&lt;"
    [] c = ">" -> "&gt;"
    [] c = "\"" -> "&quot;"
    [] c = "'" -> "&#x27;"
    [] OTHER -> c

html_escape(s) == [i \in 1..Len(s) |-> EscapeChar(s[i])]

Suffixed(s, code) == s \o <<" ">> \o code

EUR == <<"E", "U", "R">>

USD == <<"U", "S", "D">>

Success == <<"s", "u", "c", "c", "e", "s", "s">>

MessageText(eur_fmt, usd_fmt) ==
  <<"Estimated price: ">> \o eur_fmt \o <<" / ">> \o usd_fmt
    \o <<"\n\n", "Details:\n", "- Status: success\n">>

\* Mutant of MessageHtml: the values are interpolated as they are
MessageHtmlUnescaped(eur_fmt, usd_fmt) ==
  <<"\\U0001F3E0 <b>Estimated price</b>\n">>
    \o eur_fmt \o <<" / ">> \o usd_fmt
    \o <<"\n\n", "\\U0001F50E <b>Details</b>:\n", "\\u2022 Status: ">>
    \o Success

MessageHtml(eur_fmt, usd_fmt) ==
  <<"\\U0001F3E0 <b>Estimated price</b>\n">>
    \o html_escape(eur_fmt) \o <<" / ">> \o html_escape(usd_fmt)
    \o <<"\n\n", "\\U0001F50E <b>Details</b>:\n", "\\u2022 Status: ">>
    \o html_escape(Success)

\* ------------------------------------------------------------------ value transformer

DecOne == [neg |-> FALSE, m |-> <<1>>, fl |-> 0]

DecIsZero(x) == \A i \in 1..Len(x.m) : x.m[i] = 0

\* math.exp and math.expm1 on the raw outputs the model meets under the log
\* modes (0.0, 1.0, 2.5 and 12.3456789), to 12 decimals; expm1 keeps the
\* sign of a zero
math_exp(rp) ==
  CASE DecIsZero(rp) -> DecOne
    [] rp.m = <<0, 0, 0, 1>> -> [neg |-> FALSE, m |-> <<8459, 8182, 7182, 2>>, fl |-> 3]
    [] rp.m = <<0, 0, 5000, 2>> -> [neg |-> FALSE, m |-> <<703, 9396, 1824, 12>>, fl |-> 3]
    [] rp.m = <<0, 7890, 3456, 12>> ->
         [neg |-> FALSE, m |-> <<2135, 6908, 1945, 9964, 22>>, fl |-> 3]

math_expm1(rp) ==
  CASE DecIsZero(rp) -> [neg |-> rp.neg, m |-> <<>>, fl |-> 0]
    [] rp.m = <<0, 0, 0, 1>> -> [neg |-> FALSE, m |-> <<8459, 8182, 7182, 1>>, fl |-> 3]
    [] rp.m = <<0, 0, 5000, 2>> -> [neg |-> FALSE, m |-> <<703, 9396, 1824, 11>>, fl |-> 3]
    [] rp.m = <<0, 7890, 3456, 12>> ->
         [neg |-> FALSE, m |-> <<2135, 6908, 1945, 9963, 22>>, fl |-> 3]

\* Mutant of inverse_transform: the multiplier is applied in every mode
inverse_transformMultiplied(cfg, raw_pred) ==
  IF cfg.TARGET_TRANSFORM = "log"
  THEN DecMul(math_exp(raw_pred), cfg.PRICE_MULTIPLIER)
  ELSE IF cfg.TARGET_TRANSFORM = "log1p"
  THEN DecMul(math_expm1(raw_pred), cfg.PRICE_MULTIPLIER)
  ELSE DecMul(raw_pred, cfg.PRICE_MULTIPLIER)

inverse_transform(cfg, raw_pred) ==
  IF cfg.TARGET_TRANSFORM = "log" THEN math_exp(raw_pred)
  ELSE IF cfg.TARGET_TRANSFORM = "log1p" THEN math_expm1(raw_pred)
  ELSE DecMul(raw_pred, cfg.PRICE_MULTIPLIER)

\* os.getenv defaults
DefaultMultiplier == [neg |-> FALSE, m |-> <<0, 10>>, fl |-> 0]

DefaultRate == [neg |-> FALSE, m |-> <<1000, 1>>, fl |-> 1]

\* ------------------------------------------------------------------ predictor

\* The fitted pipeline is opaque: a deterministic function of the row's cells
\* by position.  A predictor [base, gain, raises] answers base + gain * |score|
\* in units of 10^-12 with the sign of score, where score weighs every column
\* differently; one that raises does so on rows whose first cell is negative
\* (the way input validation of a pipeline rejects a row).
Weights == <<1, 2, 3, 5, 7, 11, 13, 17>>

RawFracLimbs == 3

RECURSIVE Score(_, _)
Score(df, i) ==
  IF i > Len(df) THEN 0 ELSE Weights[i] * df[i].value + Score(df, i + 1)

Abs(n) == IF n < 0 THEN 0 - n ELSE n

\* model.predict(df)[0]
Predict(p, df) ==
  IF p.raises # "none" /\ df[1].value < 0
  THEN [ok |-> FALSE, type |-> p.raises, msg |-> <<"rejected row">>]
  ELSE [ok |-> TRUE,
        raw |-> [neg |-> Score(df, 1) < 0,
                 m |-> AddMag(p.base, NatLimbs(p.gain * Abs(Score(df, 1))), 0),
                 fl |-> RawFracLimbs]]

\* ------------------------------------------------------------------ request handlers

Response(code, detail, body, stages) ==
  [code |-> code, detail |-> detail, body |-> body, stages |-> stages]

\* raise HTTPException(status_code=code, detail=detail)
HTTPException(code, detail, stages) == Response(code, detail, None, stages)

\* Mutant of PredictResponse: the USD value is derived from the rounded EUR
PredictResponseUsdFromRounded(cfg, raw_pred) ==
  LET pred_eur_rounded == Round2(inverse_transform(cfg, raw_pred))
      pred_usd_rounded == Round2(DecMul(DecOfRounded(pred_eur_rounded), cfg.EUR_TO_USD))
      eur_fmt == Suffixed(format_eur_eu(pred_eur_rounded), EUR)
      usd_fmt == Suffixed(format_usd_en(pred_usd_rounded), USD)
  IN [prediction |-> pred_eur_rounded,
      prediction_eur |-> pred_eur_rounded,
      prediction_usd |-> pred_usd_rounded,
      prediction_eur_formatted |-> eur_fmt,
      prediction_usd_formatted |-> usd_fmt,
      status |-> Success,
      message_text |-> MessageText(eur_fmt, usd_fmt),
      message_html |-> MessageHtml(eur_fmt, usd_fmt)]

\* The shared tail of both handlers, from the raw prediction to PredictResponse
PredictResponse(cfg, raw_pred) ==
  LET pred_eur_value == inverse_transform(cfg, raw_pred)
      pred_usd_value == DecMul(pred_eur_value, cfg.EUR_TO_USD)
      pred_eur_rounded == Round2(pred_eur_value)
      pred_usd_rounded == Round2(pred_usd_value)
      eur_fmt == Suffixed(format_eur_eu(pred_eur_rounded), EUR)
      usd_fmt == Suffixed(format_usd_en(pred_usd_rounded), USD)
  IN [prediction |-> pred_eur_rounded,
      prediction_eur |-> pred_eur_rounded,
      prediction_usd |-> pred_usd_rounded,
      prediction_eur_formatted |-> eur_fmt,
      prediction_usd_formatted |-> usd_fmt,
      status |-> Success,
      message_text |-> MessageText(eur_fmt, usd_fmt),
      message_html |-> MessageHtml(eur_fmt, usd_fmt)]

PredictionFailed(msg) == <<"Prediction failed: ">> \o msg

\* Mutant of predict: a failed prediction is answered with a filled-in body
predictDefaultOnError(model, cfg, req) ==
  IF model = None
  THEN HTTPException(503, <<"Model not loaded">>, <<>>)
  ELSE LET df == FrameFromRecord(req)
           out == Predict(model, df)
       IN IF ~out.ok
          THEN Response(200, <<>>,
                        [PredictResponse(cfg, DecOfUnits(0, 0)) EXCEPT !.status = <<"error">>],
                        <<"predict">>)
          ELSE Response(200, <<>>, PredictResponse(cfg, out.raw),
                        <<"predict", "transform", "format">>)

\* POST /predict
predict(model, cfg, req) ==
  IF model = None
  THEN HTTPException(503, <<"Model not loaded">>, <<>>)
  ELSE LET df == FrameFromRecord(req)
           out == Predict(model, df)
       IN IF ~out.ok
          THEN HTTPException(500, PredictionFailed(out.msg), <<"predict">>)
          ELSE Response(200, <<>>, PredictResponse(cfg, out.raw),
                        <<"predict", "transform", "format">>)

CountError(n) ==
  <<"Input must contain exactly 8 numerical values (got ">> \o NatDigits(n) \o <<")">>

FloatError(tok) == <<"could not convert string to float: '">> \o tok \o <<"'">>

\* Mutant of predict_from_string: the tokens are converted before they are
\* counted
predict_from_stringConvertingFirst(model, cfg, input) ==
  IF model = None
  THEN HTTPException(503, <<"Model not loaded">>, <<>>)
  ELSE LET parts == Parts(input)
           bad == FirstBad(parts)
           out == Predict(model, FrameFromNums(Nums(parts)))
       IN IF bad # 0
          THEN HTTPException(400, FloatError(parts[bad]), <<"split", "float">>)
          ELSE IF Len(parts) # NumFeatures
          THEN HTTPException(400, CountError(Len(parts)), <<"split", "float">>)
          ELSE IF ~out.ok /\ out.type = "ValueError"
          THEN HTTPException(400, out.msg, <<"split", "float", "predict">>)
          ELSE IF ~out.ok
          THEN HTTPException(500, PredictionFailed(out.msg),
                             <<"split", "float", "predict">>)
          ELSE Response(200, <<>>, PredictResponse(cfg, out.raw),
                        <<"split", "float", "predict", "transform", "format">>)

\* Mutant of predict_from_string: the input is parsed before the model is
\* looked at
predict_from_stringParsingFirst(model, cfg, input) ==
  LET parts == Parts(input)
      bad == FirstBad(parts)
      out == Predict(model, FrameFromNums(Nums(parts)))
  IN IF Len(parts) # NumFeatures
     THEN HTTPException(400, CountError(Len(parts)), <<"split">>)
     ELSE IF bad # 0
     THEN HTTPException(400, FloatError(parts[bad]), <<"split", "float">>)
     ELSE IF model = None
     THEN HTTPException(503, <<"Model not loaded">>, <<"split", "float">>)
     ELSE IF ~out.ok /\ out.type = "ValueError"
     THEN HTTPException(400, out.msg, <<"split", "float", "predict">>)
     ELSE IF ~out.ok
     THEN HTTPException(500, PredictionFailed(out.msg),
                        <<"split", "float", "predict">>)
     ELSE Response(200, <<>>, PredictResponse(cfg, out.raw),
                   <<"split", "float", "predict", "transform", "format">>)

\* POST /predict-from-string
predict_from_string(model, cfg, input) ==
  IF model = None
  THEN HTTPException(503, <<"Model not loaded">>, <<>>)
  ELSE LET parts == Parts(input)
           bad == FirstBad(parts)
           out == Predict(model, FrameFromNums(Nums(parts)))
       IN IF Len(parts) # NumFeatures
          THEN HTTPException(400, CountError(Len(parts)), <<"split">>)
          ELSE IF bad # 0
          THEN HTTPException(400, FloatError(parts[bad]), <<"split", "float">>)
          ELSE IF ~out.ok /\ out.type = "ValueError"
          THEN HTTPException(400, out.msg, <<"split", "float", "predict">>)
          ELSE IF ~out.ok
          THEN HTTPException(500, PredictionFailed(out.msg),
                             <<"split", "float", "predict">>)
          ELSE Response(200, <<>>, PredictResponse(cfg, out.raw),
                        <<"split", "float", "predict", "transform", "format">>)

\* The try block of predict (lines 116-157) as a pool thread runs it after
\* it has passed line 114: line 118 reads the global model again
NoneTypeError == <<"'NoneType' object has no attribute 'predict'">>

predict_try(model, cfg, req) ==
  IF model = None
  THEN HTTPException(500, PredictionFailed(NoneTypeError), <<"predict">>)
  ELSE predict(model, cfg, req)

\* The try block of predict_from_string (lines 163-211) after line 161:
\* line 172 reads the global model again, after the input was parsed
predict_from_string_try(model, cfg, input) ==
  IF model # None
  THEN predict_from_string(model, cfg, input)
  ELSE LET parts == Parts(input)
           bad == FirstBad(parts)
       IN IF Len(parts) # NumFeatures
          THEN HTTPException(400, CountError(Len(parts)), <<"split">>)
          ELSE IF bad # 0
          THEN HTTPException(400, FloatError(parts[bad]), <<"split", "float">>)
          ELSE HTTPException(500, PredictionFailed(NoneTypeError),
                             <<"split", "float", "predict">>)

\* MODEL_PATH = os.path.join(os.path.dirname(__file__), "..", "model",
\* "model.joblib"): no environment variable is read
MODEL_PATH == <<"app/../model/model.joblib">>

\* GET /
root(model) ==
  Response(200, <<>>,
           [msg |-> <<"Housing Price Predictor API">>, model_loaded |-> model # None],
           <<>>)

\* GET /health
health_check(model) ==
  Response(200, <<>>,
           [status |-> <<"healthy">>, model_loaded |-> model # None,
            model_path |-> MODEL_PATH],
           <<>>)

\* The routes the module registers on app
app_routes ==
  {<<"GET", "/">>, <<"GET", "/health">>,
   <<"POST", "/predict">>, <<"POST", "/predict-from-string">>}

\* The router's answer to a request that matches no route: no handler runs
NotFound == HTTPException(404, <<"Not Found">>, <<>>)

\* ------------------------------------------------------------------ inputs

\* Positions of a feature vector that differ from the common value
MaxVaried == 1

\* Tokens of a delimited input
MaxTokens == 10

\* Seconds of MODEL_WAIT_TIMEOUT
MaxTimeout == 5

\* 1.0, -2.5 and 15.0
BaseValue == FeatureScale

OtherValues == {0 - (5 * FeatureScale) \div 2, 15 * FeatureScale}

VectorOf(varied, v) ==
  [i \in 1..NumFeatures |-> IF i \in varied THEN v ELSE BaseValue]

\* conftest.py sample_housing_data
SampleVector ==
  <<(42 * FeatureScale) \div 10, 15 * FeatureScale, (53 * FeatureScale) \div 10,
    (12 * FeatureScale) \div 10, 1800 * FeatureScale, (31 * FeatureScale) \div 10,
    (3405 * FeatureScale) \div 100, 0 - (11825 * FeatureScale) \div 100>>

FeatureVectors ==
  {VectorOf(varied, v) :
     varied \in {s \in SUBSET (1..NumFeatures) : Cardinality(s) <= MaxVaried},
     v \in OtherValues}
  \cup {SampleVector}

RecordOf(vec) ==
  [name \in {columns[i] : i \in 1..NumFeatures} |->
     vec[CHOOSE i \in 1..NumFeatures : columns[i] = name]]

CommaJoined(vec) == JoinWith([i \in 1..Len(vec) |-> NumToToken(vec[i])], ",")

\* Token texts a delimited input is varied with: a padded number, a word,
\* an empty and a blank token, a negative number, a number with a gap
Pieces ==
  {<<" ", "2", ".", "5", " ">>, <<"a", "b", "c">>, <<>>, <<" ">>,
   <<"-", "2", ".", "5">>, <<"1", " ", "2">>}

\* n tokens "1", the pos-th replaced by piece, joined by the delimiters of a
\* layout: commas, semicolons, or both in turn inside surrounding blanks
Delimited(n, pos, piece, layout) ==
  LET tok(i) == IF i = pos THEN piece ELSE <<"1">>
      sep(i) == IF layout = "commas" THEN <<",">>
                ELSE IF layout = "semicolons" THEN <<";">>
                ELSE IF i % 2 = 1 THEN <<";">> ELSE <<",">>
      body == Concat([i \in 1..n |-> IF i = 1 THEN tok(i) ELSE sep(i) \o tok(i)])
  IN IF layout = "mixed" THEN <<" ">> \o body \o <<"\t", " ">> ELSE body

Layouts == {"commas", "semicolons", "mixed"}

\* Eight tokens "1" with any subset of the seven delimiters a semicolon
SubsetDelimited(semis) ==
  Concat([i \in 1..NumFeatures |->
            IF i = 1 THEN <<"1">>
            ELSE (IF (i - 1) \in semis THEN <<";">> ELSE <<",">>) \o <<"1">>])

DelimitedInputs ==
  {Delimited(n, 0, <<>>, l) : n \in 0..MaxTokens, l \in Layouts}
  \cup {Delimited(n, pos, piece, l) :
          n \in 1..MaxTokens, pos \in 1..MaxTokens, piece \in Pieces, l \in Layouts}
  \cup {SubsetDelimited(semis) : semis \in SUBSET (1..(NumFeatures - 1))}

\* Raw outputs start from 2.5, 0.000000043 and 0.0
Bases == {<<0, 0, 5000, 2>>, <<3000, 4>>, <<>>}

Predictors ==
  {[base |-> b, gain |-> 1, raises |-> "none"] : b \in Bases}
  \cup {[base |-> <<0, 0, 5000, 2>>, gain |-> 100, raises |-> "none"]}
  \cup {[base |-> <<0, 0, 5000, 2>>, gain |-> 1, raises |-> r] :
          r \in {"ValueError", "TypeError"}}

\* Pipelines that answer every row alike: 0.0, 1.0, 2.5 and 12.3456789
ConstantPredictors ==
  {[base |-> b, gain |-> 0, raises |-> "none"] :
     b \in {<<>>, <<0, 0, 0, 1>>, <<0, 0, 5000, 2>>, <<0, 7890, 3456, 12>>}}

\* File content joblib.load rejects
Corrupt == [tag |-> "corrupt"]

Configs ==
  [MODEL_WAIT_TIMEOUT : 0..MaxTimeout,
   PRICE_MULTIPLIER : {DefaultMultiplier},
   EUR_TO_USD : {DefaultRate},
   TARGET_TRANSFORM : {"none"}]

\* TARGET_TRANSFORM after .lower(): the three documented modes, an
\* undocumented one and the empty string; PRICE_MULTIPLIER 100000.0 or 1.0
TransformConfigs ==
  [MODEL_WAIT_TIMEOUT : {5},
   PRICE_MULTIPLIER : {DefaultMultiplier, DecOne},
   EUR_TO_USD : {DefaultRate},
   TARGET_TRANSFORM : {"none", "log", "log1p", "sqrt", ""}]

\* conftest.py client fixture: MODEL_WAIT_TIMEOUT = 5
FixtureConfig ==
  [MODEL_WAIT_TIMEOUT |-> 5, PRICE_MULTIPLIER |-> DefaultMultiplier,
   EUR_TO_USD |-> DefaultRate, TARGET_TRANSFORM |-> "none"]

\* The request bodies a client sends: the same numbers on both endpoints, or
\* the sample record and any delimited input
Payloads ==
  {<<RecordOf(v), CommaJoined(v)>> : v \in FeatureVectors}
  \cup {<<RecordOf(SampleVector), s>> : s \in DelimitedInputs}

\* ------------------------------------------------------------------ state

VARIABLES
  cfg,            \* the configuration read from the environment at import
  disk,           \* the file at MODEL_PATH: None, or [content, mtime]
  now,            \* seconds since the process started
  start_time,     \* wait_for_model's start_time
  wake,           \* when the current time.sleep(2) ends
  pc,             \* where the module's import stands
  startup_error,  \* the RuntimeError that ended the import, or None
  model,          \* the module global model
  payloadP,       \* the body the client posts to /predict
  payloadS,       \* the input the client posts to /predict-from-string
  respP,          \* the last answer to POST /predict, or None
  respS,          \* the last answer to POST /predict-from-string, or None
  environ,        \* the environment variables main.py reads nothing from
  worker,         \* the threads of the pool that runs the handlers
  respG           \* the last request outside the prediction routes, answered

vars ==
  <<cfg, disk, now, start_time, wake, pc, startup_error, model,
    payloadP, payloadS, respP, respS, environ, worker, respG>>

loader == <<now, start_time, wake, pc, startup_error, model>>

client == <<payloadP, payloadS>>

service == <<environ, worker, respG>>

SleepSeconds == 2

\* Threads of the pool that runs the handlers
MaxWorkers == 2

PredictionRoutes == {"predict", "predict_from_string"}

\* No thread of the pool is busy
Idle == [at \in PredictionRoutes \X {"check", "try"} |-> 0]

\* os.environ without the variables read into cfg: empty, or as the
\* conftest.py client fixture sets it (MODEL_PATH = test_model_file)
NoEnv == [name \in {} |-> <<>>]

FixtureEnv == [MODEL_PATH |-> <<"/tmp/test_model.joblib">>]

\* conftest.py test_model, the pipeline stored at test_model_file
test_model == [base |-> <<0, 0, 0, 2>>, gain |-> 1, raises |-> "none"]

File(content, at) == [content |-> content, mtime |-> at]

InitProcess ==
  /\ now = 0
  /\ start_time = 0
  /\ wake = 0
  /\ pc = "import"
  /\ startup_error = None
  /\ model = None
  /\ respP = None
  /\ respS = None
  /\ worker = Idle
  /\ respG = None

\* Any timeout and any state of the model file, with the sample request
AnyStartUp ==
  /\ cfg \in Configs
  /\ disk \in {None, File(Corrupt, 0)} \cup {File(p, 0) : p \in Predictors}
  /\ environ = NoEnv
  /\ payloadP = RecordOf(SampleVector)
  /\ payloadS = CommaJoined(SampleVector)

\* The fixture's start-up with any predictor and any request
FixtureStartUp ==
  /\ cfg = FixtureConfig
  /\ disk \in {File(p, 0) : p \in Predictors}
  /\ environ = FixtureEnv
  /\ \E pl \in Payloads : payloadP = pl[1] /\ payloadS = pl[2]

\* Any transform mode and multiplier over a constant pipeline, with the
\* sample request
TransformStartUp ==
  /\ cfg \in TransformConfigs
  /\ disk \in {File(p, 0) : p \in ConstantPredictors}
  /\ environ = NoEnv
  /\ payloadP = RecordOf(SampleVector)
  /\ payloadS = CommaJoined(SampleVector)

Init ==
  /\ InitProcess
  /\ AnyStartUp \/ FixtureStartUp \/ TransformStartUp

\* ------------------------------------------------------------------ model loader

\* model = load_model_safely(MODEL_PATH, MODEL_WAIT_TIMEOUT): entering
\* wait_for_model, start_time = time.time()
CallLoadModel ==
  /\ pc = "import"
  /\ start_time' = now
  /\ pc' = "wait"
  /\ UNCHANGED <<cfg, disk, now, wake, startup_error, model, client, service, respP, respS>>

InTime == now - start_time < cfg.MODEL_WAIT_TIMEOUT

\* while ...: if os.path.exists(model_path): return True
WaitFound ==
  /\ pc = "wait"
  /\ InTime
  /\ disk # None
  /\ pc' = "load"
  /\ UNCHANGED <<cfg, disk, now, start_time, wake, startup_error, model, client, service,
                 respP, respS>>

\* Mutant of WaitSleep: the pause between two checks is one second
WaitSleepOneSecond ==
  /\ pc = "wait"
  /\ InTime
  /\ disk = None
  /\ wake' = now + 1
  /\ pc' = "sleep"
  /\ UNCHANGED <<cfg, disk, now, start_time, startup_error, model, client, service,
                 respP, respS>>

\* while ...: the path does not exist: time.sleep(2)
WaitSleep ==
  /\ pc = "wait"
  /\ InTime
  /\ disk = None
  /\ wake' = now + SleepSeconds
  /\ pc' = "sleep"
  /\ UNCHANGED <<cfg, disk, now, start_time, startup_error, model, client, service,
                 respP, respS>>

\* A second of the sleep passes
Tick ==
  /\ pc = "sleep"
  /\ now < wake
  /\ now' = now + 1
  /\ UNCHANGED <<cfg, disk, start_time, wake, pc, startup_error, model, client, service,
                 respP, respS>>

\* time.sleep(2) returns
WakeUp ==
  /\ pc = "sleep"
  /\ now >= wake
  /\ pc' = "wait"
  /\ UNCHANGED <<cfg, disk, now, start_time, wake, startup_error, model, client, service,
                 respP, respS>>

RuntimeError(msg) == [type |-> "RuntimeError", msg |-> msg]

NotFoundError(timeout) ==
  RuntimeError(<<"Model not found after ">> \o NatDigits(timeout)
                 \o <<"s. Run training first.">>)

LoadError == RuntimeError(<<"Failed to load model: ", "unreadable file">>)

\* Mutant of WaitTimeout: the failed wait is swallowed and the import goes
\* on with model = None
WaitTimeoutKeepsServing ==
  /\ pc = "wait"
  /\ ~InTime
  /\ pc' = "serving"
  /\ UNCHANGED <<cfg, disk, now, start_time, wake, startup_error, model, client, service,
                 respP, respS>>

\* The loop ends without a find: wait_for_model returns False and
\* load_model_safely raises, which ends the import before app exists
WaitTimeout ==
  /\ pc = "wait"
  /\ ~InTime
  /\ pc' = "failed"
  /\ startup_error' = NotFoundError(cfg.MODEL_WAIT_TIMEOUT)
  /\ UNCHANGED <<cfg, disk, now, start_time, wake, model, client, service, respP, respS>>

\* joblib.load(model_path) returns the predictor; model is assigned and the
\* import goes on to create app and its routes
LoadSucceeds ==
  /\ pc = "load"
  /\ disk.content # Corrupt
  /\ model' = disk.content
  /\ pc' = "serving"
  /\ UNCHANGED <<cfg, disk, now, start_time, wake, startup_error, client, service,
                 respP, respS>>

\* Mutant of LoadFails: the failed load is logged and the import goes on to
\* create app with model = None
LoadFailsKeepsServing ==
  /\ pc = "load"
  /\ disk.content = Corrupt
  /\ pc' = "serving"
  /\ UNCHANGED <<cfg, disk, now, start_time, wake, startup_error, model, client, service,
                 respP, respS>>

\* Mutant of LoadFails: the failed deserialization is reported as a file
\* that was not found
LoadFailsAsNotFound ==
  /\ pc = "load"
  /\ disk.content = Corrupt
  /\ pc' = "failed"
  /\ startup_error' = NotFoundError(cfg.MODEL_WAIT_TIMEOUT)
  /\ UNCHANGED <<cfg, disk, now, start_time, wake, model, client, service, respP, respS>>

\* joblib.load(model_path) raises
LoadFails ==
  /\ pc = "load"
  /\ disk.content = Corrupt
  /\ pc' = "failed"
  /\ startup_error' = LoadError
  /\ UNCHANGED <<cfg, disk, now, start_time, wake, model, client, service, respP, respS>>

\* scripts/train.py (or anything else) writes the file at the model path
\* while the service waits for it
ModelFileWritten ==
  /\ pc \in {"wait", "sleep"}
  /\ disk = None
  /\ \E content \in Predictors \cup {Corrupt} : disk' = File(content, now)
  /\ UNCHANGED <<cfg, loader, client, service, respP, respS>>

\* ------------------------------------------------------------------ requests

HandlePredict ==
  /\ pc = "serving"
  /\ respP' = predict(model, cfg, payloadP)
  /\ UNCHANGED <<cfg, disk, loader, client, service, respS>>

HandlePredictFromString ==
  /\ pc = "serving"
  /\ respS' = predict_from_string(model, cfg, payloadS)
  /\ UNCHANGED <<cfg, disk, loader, client, service, respP>>

\* No HTTP answer: the import failed, so there is no app to connect to
Refused == Response(0, <<"connection refused">>, None, <<>>)

RequestRefused ==
  /\ pc = "failed"
  /\ respP = None \/ respS = None
  /\ respP' = Refused
  /\ respS' = Refused
  /\ UNCHANGED <<cfg, disk, loader, client, service>>

Next ==
  \/ CallLoadModel
  \/ WaitFound
  \/ WaitSleep
  \/ Tick
  \/ WakeUp
  \/ WaitTimeout
  \/ LoadSucceeds
  \/ LoadFails
  \/ ModelFileWritten
  \/ HandlePredict
  \/ HandlePredictFromString
  \/ RequestRefused

Spec == Init /\ [][Next]_vars

\* The steps of the import, which the interpreter's main thread runs
LoaderStep ==
  \/ CallLoadModel
  \/ WaitFound
  \/ WaitSleep
  \/ Tick
  \/ WakeUp
  \/ WaitTimeout
  \/ LoadSucceeds
  \/ LoadFails

InitLoader == InitProcess /\ AnyStartUp

\* The start-up under a scheduler that keeps the main thread running and a
\* clock that keeps advancing
SpecLoader == InitLoader /\ [][Next]_vars /\ WF_vars(LoaderStep)

\* The handlers under a test that replaces the module global model by None
\* after the import (the mocking test_api.py's test_model_not_loaded_scenario
\* calls for): the handlers read the global on every request
InitMocked ==
  \/ Init
  \/ /\ cfg = FixtureConfig
     /\ disk \in {File(p, 0) : p \in Predictors}
     /\ now = 0 /\ start_time = 0 /\ wake = 0
     /\ pc = "serving"
     /\ startup_error = None
     /\ model = None
     /\ respP = None /\ respS = None
     /\ environ = FixtureEnv
     /\ worker = Idle
     /\ respG = None
     /\ \E pl \in Payloads : payloadP = pl[1] /\ payloadS = pl[2]

SpecMocked == InitMocked /\ [][Next]_vars

\* ------------------------------------------------------------------ the service under its thread pool

\* FastAPI runs the handlers (plain def functions) on the threads of a pool,
\* several at a time.  A thread's handler reads the global model at its first
\* line ("check") and again inside the try block ("try").  The threads are
\* alike, so worker counts the threads that stand at each point.

Busy == worker[<<"predict", "check">>] + worker[<<"predict", "try">>]
          + worker[<<"predict_from_string", "check">>]
          + worker[<<"predict_from_string", "try">>]

Answer(r, resp) ==
  IF r = "predict"
  THEN respP' = resp /\ UNCHANGED respS
  ELSE respS' = resp /\ UNCHANGED respP

\* The pool hands a prediction request to a free thread
Dispatch(r) ==
  /\ pc = "serving"
  /\ Busy < MaxWorkers
  /\ worker' = [worker EXCEPT ![<<r, "check">>] = @ + 1]
  /\ UNCHANGED <<cfg, disk, loader, client, respP, respS, environ, respG>>

\* if model is None: raise HTTPException(status_code=503, ...)
CheckModel(r) ==
  /\ worker[<<r, "check">>] > 0
  /\ IF model = None
     THEN /\ worker' = [worker EXCEPT ![<<r, "check">>] = @ - 1]
          /\ Answer(r, HTTPException(503, <<"Model not loaded">>, <<>>))
     ELSE /\ worker' = [worker EXCEPT ![<<r, "check">>] = @ - 1,
                                      ![<<r, "try">>] = @ + 1]
          /\ UNCHANGED <<respP, respS>>
  /\ UNCHANGED <<cfg, disk, loader, client, environ, respG>>

\* Mutant of RunTry: a handler that predicts with the pipeline in the file
\* at the model path when one is there, rather than with the global model
RunTryReadingFile(r) ==
  /\ worker[<<r, "try">>] > 0
  /\ worker' = [worker EXCEPT ![<<r, "try">>] = @ - 1]
  /\ LET m == IF disk # None /\ disk.content # Corrupt THEN disk.content ELSE model
     IN Answer(r, IF r = "predict"
                  THEN predict_try(m, cfg, payloadP)
                  ELSE predict_from_string_try(m, cfg, payloadS))
  /\ UNCHANGED <<cfg, disk, loader, client, environ, respG>>

\* Mutant of RunTry: a handler whose prediction failed drops the global
\* model
RunTryDroppingModel(r) ==
  /\ worker[<<r, "try">>] > 0
  /\ worker' = [worker EXCEPT ![<<r, "try">>] = @ - 1]
  /\ LET resp == IF r = "predict"
                 THEN predict_try(model, cfg, payloadP)
                 ELSE predict_from_string_try(model, cfg, payloadS)
     IN /\ Answer(r, resp)
        /\ model' = IF resp.code = 500 THEN None ELSE model
  /\ UNCHANGED <<cfg, disk, now, start_time, wake, pc, startup_error, client,
                 environ, respG>>

\* try: ... return PredictResponse(...) / except ...: raise HTTPException(...)
\* The answer is sent and the thread goes back to the pool
RunTry(r) ==
  /\ worker[<<r, "try">>] > 0
  /\ worker' = [worker EXCEPT ![<<r, "try">>] = @ - 1]
  /\ Answer(r, IF r = "predict"
               THEN predict_try(model, cfg, payloadP)
               ELSE predict_from_string_try(model, cfg, payloadS))
  /\ UNCHANGED <<cfg, disk, loader, client, environ, respG>>

\* Requests outside the prediction routes: the two GET routes, and a request
\* for a reload of the model, for which the module registers no route
ReloadRequest == <<"POST", "/reload-model">>

OtherRequests == {<<"GET", "/">>, <<"GET", "/health">>, ReloadRequest}

Route(m, req) ==
  IF req \notin app_routes THEN NotFound
  ELSE IF req = <<"GET", "/">> THEN root(m)
  ELSE health_check(m)

\* Mutant of HandleOther: the request for a reload is served by loading the
\* file at the model path into the global model
HandleOtherReloading ==
  /\ pc = "serving"
  /\ \E req \in OtherRequests :
       IF req = ReloadRequest
       THEN /\ model' = disk.content
            /\ respG' = [req |-> req,
                         resp |-> Response(200, <<>>, [status |-> <<"reloaded">>], <<>>)]
       ELSE /\ model' = model
            /\ respG' = [req |-> req, resp |-> Route(model, req)]
  /\ UNCHANGED <<cfg, disk, now, start_time, wake, pc, startup_error, client,
                 respP, respS, environ, worker>>

HandleOther ==
  /\ pc = "serving"
  /\ \E req \in OtherRequests : respG' = [req |-> req, resp |-> Route(model, req)]
  /\ UNCHANGED <<cfg, disk, loader, client, respP, respS, environ, worker>>

\* A pipeline a later run of scripts/train.py fits
Retrainings == {[base |-> <<0, 0, 5000, 2>>, gain |-> 100, raises |-> "none"]}

\* scripts/train.py runs again while the service is up: joblib.dump
\* overwrites the file at the model path
Retrained ==
  /\ pc = "serving"
  /\ \E content \in Retrainings : disk' = File(content, now)
  /\ UNCHANGED <<cfg, loader, client, respP, respS, service>>

\* The rows the service is exercised with: the sample and a row some
\* predictors reject
ServiceVectors == {SampleVector, VectorOf({1}, 0 - (5 * FeatureScale) \div 2)}

\* The pipelines the service is exercised with: one that answers every row,
\* one that raises ValueError and one that raises TypeError
ServicePredictors == {p \in Predictors : p.base = <<0, 0, 5000, 2>> /\ p.gain = 1}

\* The fixture's configuration; the model file is there from the start (a
\* pipeline, or an unreadable file) or not at all
InitService ==
  /\ InitProcess
  /\ cfg = FixtureConfig
  /\ disk \in {None, File(Corrupt, 0)} \cup {File(p, 0) : p \in ServicePredictors}
  /\ environ \in {NoEnv, FixtureEnv}
  /\ \E v \in ServiceVectors : payloadP = RecordOf(v) /\ payloadS = CommaJoined(v)

NextService ==
  \/ CallLoadModel
  \/ WaitFound
  \/ WaitSleep
  \/ Tick
  \/ WakeUp
  \/ WaitTimeout
  \/ LoadSucceeds
  \/ LoadFails
  \/ RequestRefused
  \/ \E r \in PredictionRoutes : Dispatch(r)
  \/ \E r \in PredictionRoutes : CheckModel(r)
  \/ \E r \in PredictionRoutes : RunTry(r)
  \/ HandleOther
  \/ Retrained

SpecService == InitService /\ [][NextService]_vars

\* ------------------------------------------------------------------ properties

Answered(resp) == resp # None /\ resp # Refused

Succeeded(resp) == Answered(resp) /\ resp.code = 200

VectorOfRecord(req) == [i \in 1..NumFeatures |-> req[columns[i]]]

SameNumbers == payloadS = CommaJoined(VectorOfRecord(payloadP))

\* C1: when the client posts the same eight numbers as a record to /predict
\* and comma-joined to /predict-from-string, a predictor that answers every
\* row makes both requests succeed, one succeeds exactly if the other does,
\* and two successes carry the same fields and the same prediction.
C1_CrossPathConsistency ==
  (Answered(respP) /\ Answered(respS) /\ model # None /\ SameNumbers) =>
    /\ model.raises = "none" => respP.code = 200 /\ respS.code = 200
    /\ respP.code = 200 <=> respS.code = 200
    /\ respP.code = 200 =>
         /\ DOMAIN respP.body = DOMAIN respS.body
         /\ CentsVal(respP.body.prediction) = CentsVal(respS.body.prediction)

C1_Witness ==
  /\ Succeeded(respP) /\ Succeeded(respS) /\ SameNumbers
  /\ payloadP # RecordOf(SampleVector)
  /\ payloadP.MedInc # payloadP.Longitude
  /\ respS.body.prediction.cents > 0

\* The last stage a handler reached was the predictor's call, which raised
PredictRaised(resp) ==
  Answered(resp) /\ resp.stages # <<>> /\ resp.stages[Len(resp.stages)] = "predict"

\* C2: on either endpoint, a request whose predictor call raised is answered
\* with 500 and "Prediction failed: " followed by the exception's message.
C2_PredictorErrorIs500 ==
  \A resp \in {respP, respS} :
    PredictRaised(resp) =>
      /\ resp.code = 500
      /\ resp.detail = PredictionFailed(<<"rejected row">>)

RawOf(resp) ==
  IF "split" \in {resp.stages[i] : i \in 1..Len(resp.stages)}
  THEN Predict(model, FrameFromNums(Nums(Parts(payloadS)))).raw
  ELSE Predict(model, FrameFromRecord(payloadP)).raw

\* x lies within half a cent of c cents (x a decimal, c a count of cents)
NearestCent(x, c) ==
  LET limb(i) == IF i >= 1 /\ i <= Len(x.m) THEN x.m[i] ELSE 0
      floor == LimbsVal(SubSeq(x.m, x.fl + 1, Len(x.m))) * 100
                 + (IF x.fl = 0 THEN 0 ELSE limb(x.fl) \div 100)
      rest == IF x.fl = 0 THEN 0 ELSE limb(x.fl) % 100
      exact == \A i \in 1..(x.fl - 1) : limb(i) = 0
  IN \/ c = floor /\ (rest < 50 \/ (rest = 50 /\ exact))
     \/ c = floor + 1 /\ rest >= 50

C4_UsdWithinOneCent ==
  \A resp \in {respP, respS} :
    (Succeeded(resp) /\ cfg.EUR_TO_USD = DefaultRate) =>
      Abs(10 * CentsVal(resp.body.prediction_usd)
            - 11 * CentsVal(resp.body.prediction_eur)) < 10

\* C5: in every successful response of either endpoint prediction and
\* prediction_eur are the same value, and that value is the inverse-transformed
\* raw output rounded to the nearest cent, with its sign.
C5_PredictionIsRoundedEur ==
  \A resp \in {respP, respS} :
    Succeeded(resp) =>
      /\ resp.body.prediction = resp.body.prediction_eur
      /\ NearestCent(inverse_transform(cfg, RawOf(resp)), resp.body.prediction.cents)
      /\ resp.body.prediction.neg = inverse_transform(cfg, RawOf(resp)).neg

\* A success whose unrounded EUR value lies above the half cent and was
\* rounded up, on each endpoint
C5_Witness ==
  /\ Succeeded(respP) /\ Succeeded(respS)
  /\ LET x == inverse_transform(cfg, RawOf(respS))
     IN x.m[x.fl] % 100 > 50 /\ respS.body.prediction.cents % 100 # 0

Delimiters == {",", ";"}

\* The number of delimiter-separated stretches of the input that hold a
\* character other than whitespace
TokenCount(s) ==
  LET cuts == {0, Len(s) + 1} \cup {i \in 1..Len(s) : s[i] \in Delimiters}
      stretches == {<<a, b>> \in cuts \X cuts :
                      a < b /\ \A c \in cuts : ~(a < c /\ c < b)}
  IN Cardinality({st \in stretches :
                    \E i \in (st[1] + 1)..(st[2] - 1) : s[i] \notin Whitespace})

Invoked(resp) == "predict" \in {resp.stages[i] : i \in 1..Len(resp.stages)}

\* C6: with a predictor installed, /predict-from-string goes past the count
\* check only if the input holds exactly 8 non-blank tokens between commas
\* and semicolons; for any other count it answers 400 with the message that
\* carries the count, and the predictor is not invoked.
C6_CountCheck ==
  (Answered(respS) /\ model # None) =>
    LET n == TokenCount(payloadS)
    IN /\ n # NumFeatures =>
            /\ respS.code = 400
            /\ respS.detail = CountError(n)
            /\ ~Invoked(respS)
       /\ n = NumFeatures => respS.detail # CountError(n)
       /\ respS.code = 200 => n = NumFeatures

\* A count error for an input that holds empty tokens and blanks around
\* three tokens
C6_Witness ==
  /\ Answered(respS)
  /\ respS.code = 400
  /\ respS.detail = CountError(3)
  /\ Len(Split(Normalise(payloadS), ",")) > 3
  /\ payloadS[1] \in Whitespace

\* The text is a float literal: an optional sign, digits with at most one
\* point, at least one digit
IsNumber(tok) ==
  LET body == IF tok # <<>> /\ tok[1] \in {"+", "-"} THEN Tail(tok) ELSE tok
  IN /\ \E i \in 1..Len(body) : body[i] \in Digits
     /\ \A i \in 1..Len(body) : body[i] \in Digits \cup {"."}
     /\ Cardinality({i \in 1..Len(body) : body[i] = "."}) <= 1

\* C7: with a predictor installed, an input of exactly 8 non-blank tokens of
\* which one is no number is answered 400 with float's message about such
\* a token, and the predictor is not invoked.
C7_NonNumericToken ==
  (Answered(respS) /\ model # None /\ TokenCount(payloadS) = NumFeatures) =>
    LET parts == Parts(payloadS)
        bad == {parts[i] : i \in 1..Len(parts)} \ {tok \in {parts[i] : i \in 1..Len(parts)} : IsNumber(tok)}
    IN /\ bad # {} =>
            /\ respS.code = 400
            /\ \E tok \in bad : respS.detail = FloatError(tok)
            /\ ~Invoked(respS)
       /\ bad = {} => Invoked(respS)

C7_Witness ==
  /\ Answered(respS)
  /\ respS.code = 400
  /\ respS.detail = FloatError(<<"a", "b", "c">>)
  /\ TokenCount(payloadS) = NumFeatures

\* C8: the answer to an input is the answer to the same input with every
\* comma written as a semicolon, and with every semicolon written as a comma.
C8_DelimitersAlike ==
  Answered(respS) =>
    /\ respS = predict_from_string(model, cfg, Replace(payloadS, ",", ";"))
    /\ respS = predict_from_string(model, cfg, Replace(payloadS, ";", ","))

C8_Witness ==
  /\ Succeeded(respS)
  /\ \E i \in 1..Len(payloadS) : payloadS[i] = ";"
  /\ \E i \in 1..Len(payloadS) : payloadS[i] = ","

ModelNotLoaded == HTTPException(503, <<"Model not loaded">>, <<>>)

\* C9: a request handled while the global model is None is answered 503
\* "Model not loaded" on both endpoints, whatever the input, with no stage
\* of parsing or prediction entered.
C9_UnavailableFirst ==
  (pc = "serving" /\ model = None) =>
    /\ respP # None => respP = ModelNotLoaded
    /\ respS # None => respS = ModelNotLoaded

\* 503 for an input that would fail the count check, and for one that
\* would fail float
C9_Witness ==
  /\ model = None
  /\ respP = ModelNotLoaded
  /\ respS = ModelNotLoaded
  /\ TokenCount(payloadS) # NumFeatures

LoaderDone == pc \in {"serving", "failed"}

\* C10 as stated: when the wait ended without the path being found, no
\* predictor is installed and every later prediction request gets 503.
C10_RequestsGet503 ==
  startup_error = NotFoundError(cfg.MODEL_WAIT_TIMEOUT) =>
    /\ model = None
    /\ respP # None => respP.code = 503
    /\ respS # None => respS.code = 503

\* C10 amended: when the model path does not exist for the whole wait, the
\* load fails with the not-found error, no predictor is installed, the
\* import ends there, and no handler ever answers a request: the client gets
\* no HTTP answer at all.
C10_FailedLoadStopsService ==
  /\ (LoaderDone /\ disk = None) => startup_error = NotFoundError(cfg.MODEL_WAIT_TIMEOUT)
  /\ startup_error = NotFoundError(cfg.MODEL_WAIT_TIMEOUT) =>
       /\ pc = "failed"
       /\ model = None
       /\ respP \in {None, Refused}
       /\ respS \in {None, Refused}

C10_Witness ==
  /\ disk = None
  /\ startup_error = NotFoundError(cfg.MODEL_WAIT_TIMEOUT)
  /\ cfg.MODEL_WAIT_TIMEOUT > SleepSeconds
  /\ respP = Refused

\* The eight fields of PredictResponse
ResponseFields ==
  {"prediction", "prediction_eur", "prediction_usd", "prediction_eur_formatted",
   "prediction_usd_formatted", "status", "message_text", "message_html"}

ErrorCodes == {503, 400, 422, 500}

\* Every stage of the request can complete: a predictor is installed, the
\* input (on the string endpoint) holds eight numbers, and the predictor
\* answers the row
CompletesP ==
  /\ model # None
  /\ Predict(model, FrameFromRecord(payloadP)).ok

CompletesS ==
  /\ model # None
  /\ TokenCount(payloadS) = NumFeatures
  /\ \A i \in 1..Len(Parts(payloadS)) : IsNumber(Parts(payloadS)[i])
  /\ Predict(model, FrameFromNums(Nums(Parts(payloadS)))).ok

\* C11: every answer of /predict and /predict-from-string is either a 200
\* whose body carries all eight fields with status "success" and no error
\* detail, or an error (503, 400, 422 or 500) with a message and no body;
\* a success is produced only when the availability check, normalisation,
\* prediction, transformation and formatting could all complete.
C11_SuccessOrError ==
  /\ \A resp \in {respP, respS} :
       Answered(resp) =>
         \/ /\ resp.code = 200
            /\ resp.body # None
            /\ DOMAIN resp.body = ResponseFields
            /\ resp.body.status = Success
            /\ resp.detail = <<>>
            /\ Len(resp.stages) >= 3
            /\ SubSeq(resp.stages, Len(resp.stages) - 2, Len(resp.stages))
                 = <<"predict", "transform", "format">>
         \/ /\ resp.code \in ErrorCodes
            /\ resp.body = None
            /\ resp.detail # <<>>
  /\ Answered(respP) /\ respP.body # None => CompletesP
  /\ Answered(respS) /\ respS.body # None => CompletesS

\* One request ended in a success, the other in an error
C11_Witness ==
  /\ Succeeded(respP)
  /\ Answered(respS) /\ respS.code = 400 /\ respS.body = None
  /\ model # None

\* A step of a request: a thread of the pool moves, or a request is answered
RequestStep ==
  worker' # worker \/ respP' # respP \/ respS' # respS \/ respG' # respG

\* C12: whatever requests run side by side on the pool, succeeding or
\* failing, no step of a request changes the global model or the
\* configuration, and every answer is the answer the same request gets when
\* it is handled alone with the installed model and configuration.
C12_NoSharedWrites ==
  /\ [][RequestStep => (model' = model /\ cfg' = cfg /\ environ' = environ)]_vars
  /\ [](Answered(respP) => respP = predict(model, cfg, payloadP))
  /\ [](Answered(respS) => respS = predict_from_string(model, cfg, payloadS))

\* Two threads inside handlers at once, after one request failed in the
\* predictor and one failed in validation
C12_Witness ==
  /\ worker[<<"predict", "try">>] >= 1
  /\ worker[<<"predict_from_string", "check">>] >= 1
  /\ Answered(respP) /\ respP.code = 500
  /\ Answered(respS) /\ respS.code = 400

\* A request for a reload is answered in this step
ReloadAnswered == respG' # respG /\ respG'.req = ReloadRequest

\* No prediction request found the global model absent
NeverAbsent ==
  \A resp \in {respP, respS} :
    Answered(resp) =>
      /\ resp.code # 503
      /\ resp.detail # PredictionFailed(NoneTypeError)

Waiting == pc \in {"wait", "sleep"}

\* C14: wait_for_model always returns.  It checks the path a whole number
\* of 2-second sleeps after its start and never later than one sleep past
\* the timeout; a check that finds the path ends the wait with True (within
\* one sleep of the file's appearance), a check that does not find it is
\* followed by a 2-second sleep, False is returned only once the timeout
\* has elapsed, and True only with the path in existence.
C14_WaitTerminates ==
  /\ <>(pc \notin {"import", "wait", "sleep"})
  /\ [](Waiting => now - start_time < cfg.MODEL_WAIT_TIMEOUT + SleepSeconds)
  /\ [](pc = "wait" => (now - start_time) % SleepSeconds = 0)
  /\ [](pc = "sleep" => wake - now \in 0..SleepSeconds)
  /\ [][(pc = "wait" /\ pc' # pc) =>
          IF ~InTime THEN pc' = "failed" /\ startup_error' = NotFoundError(cfg.MODEL_WAIT_TIMEOUT)
          ELSE IF disk # None THEN pc' = "load"
          ELSE pc' = "sleep" /\ wake' = now + SleepSeconds]_vars
  /\ [](pc = "load" =>
          /\ disk # None
          /\ now - start_time < cfg.MODEL_WAIT_TIMEOUT
          /\ now - disk.mtime <= SleepSeconds)
  /\ [](startup_error = NotFoundError(cfg.MODEL_WAIT_TIMEOUT) =>
          now - start_time >= cfg.MODEL_WAIT_TIMEOUT)

\* The file appeared during a sleep and the check after that sleep found it
C14_Witness ==
  /\ pc = "load"
  /\ disk.mtime > start_time
  /\ now > disk.mtime
  /\ now - start_time >= 2 * SleepSeconds

\* The model path of the configuration surface: MODEL_PATH of the
\* environment when it is set, the fixed relative path otherwise
ConfiguredPath ==
  IF "MODEL_PATH" \in DOMAIN environ THEN environ.MODEL_PATH ELSE MODEL_PATH

\* The file at a path: the fixture's pipeline at the fixture's path
FileAt(path) == IF path = FixtureEnv.MODEL_PATH THEN File(test_model, 0) ELSE disk

HealthAnswered == respG # None /\ respG.req = <<"GET", "/health">>

\* C15: the loader loads the pipeline stored at the configured model path
\* (MODEL_PATH of the environment when set, the fixed relative path only
\* when unset) and /health reports that path.
C15_ConfiguredPathUsed ==
  /\ [](HealthAnswered => respG.resp.body.model_path = ConfiguredPath)
  /\ [][(pc = "load" /\ pc' = "serving") =>
          model' = FileAt(ConfiguredPath).content]_vars

\* 0.5 <= x <= 8.0
InModelRange(x) ==
  LET limb(i) == IF i >= 1 /\ i <= Len(x.m) THEN x.m[i] ELSE 0
      whole == LimbsVal(SubSeq(x.m, x.fl + 1, Len(x.m)))
  IN /\ ~x.neg
     /\ \/ whole \in 1..7
        \/ whole = 0 /\ x.fl >= 1 /\ limb(x.fl) >= LimbBase \div 2
        \/ whole = 8 /\ \A i \in 1..x.fl : limb(i) = 0

\* C16: under the default configuration (mode none, multiplier 100000.0) a
\* /predict request whose raw model output lies in [0.5, 8.0] is answered
\* with a prediction in [0.5, 8.0] (50 to 800 cents).
C16_PredictionInModelUnits ==
  (/\ Succeeded(respP)
   /\ cfg.TARGET_TRANSFORM = "none"
   /\ cfg.PRICE_MULTIPLIER = DefaultMultiplier
   /\ InModelRange(RawOf(respP))) =>
    /\ ~respP.body.prediction.neg
    /\ respP.body.prediction.cents \in 50..800

Multipliers == {DefaultMultiplier, DecOne}

\* C17: the prediction of every successful response follows the transform
\* mode alone.  Under log and log1p it is the same whatever the multiplier,
\* log gives exactly 1 more than log1p, raw 0.0 gives 1.0 under log and 0.0
\* under log1p, raw 1.0 gives 2.72 under log; under every other mode (none,
\* the empty string, an unknown word) it is raw * PRICE_MULTIPLIER to the
\* nearest cent, as under none: 250000.0 for raw 2.5 and 100000.0.
C17_TransformModes ==
  \A resp \in {respP, respS} :
    Succeeded(resp) =>
      LET raw == RawOf(resp)
          mode == cfg.TARGET_TRANSFORM
          here == resp.body.prediction
          pred(c) == PredictResponse(c, raw).prediction
      IN /\ mode \in {"log", "log1p"} =>
              \A m \in Multipliers : pred([cfg EXCEPT !.PRICE_MULTIPLIER = m]) = here
         /\ mode = "log" =>
              /\ here.cents = pred([cfg EXCEPT !.TARGET_TRANSFORM = "log1p"]).cents + 100
              /\ DecIsZero(raw) => here = [neg |-> FALSE, cents |-> 100]
              /\ raw.m = <<0, 0, 0, 1>> => here = [neg |-> FALSE, cents |-> 272]
         /\ mode = "log1p" =>
              (DecIsZero(raw) => here = [neg |-> FALSE, cents |-> 0])
         /\ mode \notin {"log", "log1p"} =>
              /\ NearestCent(DecMul(raw, cfg.PRICE_MULTIPLIER), here.cents)
              /\ here = pred([cfg EXCEPT !.TARGET_TRANSFORM = "none"])
              /\ (raw.m = <<0, 0, 5000, 2>> /\ cfg.PRICE_MULTIPLIER = DefaultMultiplier) =>
                   here = [neg |-> FALSE, cents |-> 25000000]

\* Mode log with the multiplier 100000.0 and raw output 0.0: 1.0
C17_Witness ==
  /\ Succeeded(respP) /\ Succeeded(respS)
  /\ cfg.TARGET_TRANSFORM = "log"
  /\ cfg.PRICE_MULTIPLIER = DefaultMultiplier
  /\ DecIsZero(RawOf(respP))
  /\ respP.body.prediction.cents = 100

\* Every ',' becomes '.', every '.' becomes ',', all else stays
Exchange(s) ==
  [i \in 1..Len(s) |->
     IF s[i] = "," THEN "." ELSE IF s[i] = "." THEN "," ELSE s[i]]

\* US style: an optional '-', digits in groups of three set off by ',' from
\* the right, '.', two digits
IsUsStyle(s) ==
  LET n == Len(s)
      first == IF s[1] = "-" THEN 2 ELSE 1
  IN /\ n - first >= 3
     /\ s[n - 2] = "."
     /\ s[n - 1] \in Digits /\ s[n] \in Digits
     /\ s[first] \in Digits
     /\ \A i \in first..(n - 3) :
          IF (n - 2 - i) % 4 = 0 THEN s[i] = "," ELSE s[i] \in Digits

IsDigit(c) == c \in Digits

\* 1234567.89
Example == [neg |-> FALSE, cents |-> 123456789]

\* C18: for the two rounded values of every successful response, the
\* US-style string is the value's digits grouped in threes with ',', then
\* '.', then two decimals; the EU-style string is the US-style string with
\* ',' and '.' exchanged, so it holds exactly one ',', before its last two
\* digits, and exchanging again gives the US-style string back; the
\* response's formatted fields are these strings with the currency code.
\* 1234567.89 gives "1,234,567.89" and "1.234.567,89".
C18_EuIsUsExchanged ==
  \A resp \in {respP, respS} :
    Succeeded(resp) =>
      /\ \A v \in {resp.body.prediction_eur, resp.body.prediction_usd} :
           LET us == format_usd_en(v)
               eu == format_eur_eu(v)
           IN /\ IsUsStyle(us)
              /\ DigitsVal(SelectSeq(us, IsDigit)) = v.cents
              /\ (us[1] = "-") = v.neg
              /\ eu = Exchange(us)
              /\ Exchange(eu) = us
              /\ {i \in 1..Len(eu) : eu[i] = ","} = {Len(eu) - 2}
              /\ v = Example =>
                   /\ us = <<"1", ",", "2", "3", "4", ",", "5", "6", "7", ".", "8", "9">>
                   /\ eu = <<"1", ".", "2", "3", "4", ".", "5", "6", "7", ",", "8", "9">>
      /\ resp.body.prediction_eur_formatted
           = format_eur_eu(resp.body.prediction_eur) \o <<" ", "E", "U", "R">>
      /\ resp.body.prediction_usd_formatted
           = format_usd_en(resp.body.prediction_usd) \o <<" ", "U", "S", "D">>

\* A response for 1234567.89 EUR
C18_Witness ==
  /\ Succeeded(respP)
  /\ respP.body.prediction_eur = Example
  /\ respP.body.prediction_eur_formatted
       = <<"1", ".", "2", "3", "4", ".", "5", "6", "7", ",", "8", "9", " ", "E", "U", "R">>
  /\ respP.body.prediction_usd_formatted
       = <<"1", ",", "3", "5", "8", ",", "0", "2", "4", ".", "6", "8", " ", "U", "S", "D">>

\* The literal parts of the two message templates, in order
HtmlTemplate ==
  <<"\\U0001F3E0 <b>Estimated price</b>\n", " / ", "\n\n",
    "\\U0001F50E <b>Details</b>:\n", "\\u2022 Status: ">>

TextTemplate ==
  <<"Estimated price: ", " / ", "\n\n", "Details:\n", "- Status: success\n">>

Range(seq) == {seq[i] : i \in 1..Len(seq)}

\* What html.escape writes for a character it replaces
Entities == {"&amp;", "&lt;", "&gt;", "&quot;", "&#x27;"}

\* Characters that start or end markup
Markup == {"<", ">", "&"}

\* A value a client would use to inject markup
Script == <<"<", "s", "c", "r", "i", "p", "t", ">", "&", "\"">>

InHtmlTemplate(f) == f \in Range(HtmlTemplate)

\* Every fragment is a literal part of the template, an entity, or one
\* character of a value that is no markup character
EscapedOver(msg, template) ==
  \A i \in 1..Len(msg) :
    \/ msg[i] \in Range(template)
    \/ msg[i] \in Entities
    \/ msg[i] \in (Range(Script) \cup Range(EUR) \cup Range(USD) \cup Range(Success)
                     \cup Digits \cup {",", ".", "-", " "}) \ (Markup \cup {"\""})

\* C19: in every successful response message_html consists of the literal
\* parts of its template (the <b> pairs and the two emoji markers), once
\* each and in order, and of the characters of the interpolated values, none
\* of which is an unescaped '<', '>' or '&'; the same template filled with a
\* value that holds "<script>&" carries it as entities only; message_text
\* consists of its tag-free template and the values' characters.
C19_HtmlEscaped ==
  \A resp \in {respP, respS} :
    Succeeded(resp) =>
      LET html == resp.body.message_html
          text == resp.body.message_text
          hostile == MessageHtml(Script \o resp.body.prediction_eur_formatted,
                                 resp.body.prediction_usd_formatted \o Script)
      IN /\ EscapedOver(html, HtmlTemplate)
         /\ SelectSeq(html, InHtmlTemplate) = HtmlTemplate
         /\ EscapedOver(hostile, HtmlTemplate)
         /\ SelectSeq(hostile, InHtmlTemplate) = HtmlTemplate
         /\ \A i \in 1..Len(hostile) : hostile[i] \notin Markup
         /\ EscapedOver(text, TextTemplate)
         /\ \A i \in 1..Len(text) : text[i] \notin Markup

\* A response whose values carry a sign and thousands separators
C19_Witness ==
  /\ Succeeded(respP) /\ Succeeded(respS)
  /\ respS.body.prediction_eur.neg
  /\ respS.body.prediction_eur.cents > 100000
  /\ Len(respS.body.message_html) > Len(HtmlTemplate) + Len(Success)

\* C20: once the service is up the predictor and the configuration stay as
\* they are; every answer of /predict and of /predict-from-string is the
\* handler's value for the input, the installed predictor and the
\* configuration, so an answer that replaces an earlier answer to the same
\* input on the same endpoint equals it, whatever other requests, failed
\* predictions or retrainings came in between; the GET routes answer the
\* same request with the same response.
C20_SameInputSameResponse ==
  /\ [][pc = "serving" => model' = model /\ cfg' = cfg]_vars
  /\ [](Answered(respP) => respP = predict(model, cfg, payloadP))
  /\ [](Answered(respS) => respS = predict_from_string(model, cfg, payloadS))
  /\ [](respG # None => respG.resp = Route(model, respG.req))
  /\ [][(Answered(respP) /\ Answered(respP') /\ payloadP' = payloadP)
          => respP' = respP]_vars
  /\ [][(Answered(respS) /\ Answered(respS') /\ payloadS' = payloadS)
          => respS' = respS]_vars
  /\ [][(respG # None /\ respG' # None /\ respG'.req = respG.req)
          => respG'.resp = respG.resp]_vars

\* Both endpoints have answered, the file at the model path has been
\* replaced since the load, and the same requests are being served again
C20_Witness ==
  /\ Succeeded(respP) /\ Succeeded(respS) /\ respG # None
  /\ disk # None /\ disk.content # model
  /\ worker[<<"predict", "try">>] > 0
  /\ worker[<<"predict_from_string", "try">>] > 0

\* What the two errors of load_model_safely start with
IsCorruptError(e) == e # None /\ e.msg[1] = "Failed to load model: "

IsUnavailableError(e) == e # None /\ e.msg[1] = "Model not found after "

\* C21: a load that found the file and cannot deserialize it ends the import
\* with the 'Failed to load model' error; a wait that ran out ends it with
\* the 'Model not found' error; the two errors differ, an import that failed
\* carries exactly one of them, has no predictor installed and never gets to
\* serve.
C21_CorruptDistinctFromUnavailable ==
  /\ [][(pc = "load" /\ disk.content = Corrupt /\ pc' # pc) =>
          (pc' = "failed" /\ IsCorruptError(startup_error') /\ model' = None)]_vars
  /\ [][(pc = "wait" /\ ~InTime /\ pc' # pc) =>
          (pc' = "failed" /\ IsUnavailableError(startup_error') /\ model' = None)]_vars
  /\ [][pc = "failed" => (pc' = "failed" /\ model' = None
                            /\ startup_error' = startup_error)]_vars
  /\ [](pc = "failed" =>
          /\ model = None
          /\ IsCorruptError(startup_error) # IsUnavailableError(startup_error)
          /\ IsCorruptError(startup_error) =>
                (disk # None /\ disk.content = Corrupt)
          /\ IsUnavailableError(startup_error) =>
                now - start_time >= cfg.MODEL_WAIT_TIMEOUT)
  /\ [](pc # "failed" => startup_error = None)

\* The import ended on an unreadable file that was written during the wait
C21_Witness ==
  /\ pc = "failed"
  /\ IsCorruptError(startup_error)
  /\ disk.mtime > 0
  /\ respP = Refused

GetRequests == {<<"GET", "/">>, <<"GET", "/health">>}

\* C22: the global model changes only in the step in which the load
\* succeeds and the import goes on to create app, and never again; whenever
\* handlers can run it is a predictor; every answer of / and of /health
\* reports model_loaded = true, and no answer of a prediction endpoint is
\* a 503.
C22_ModelInstalledWhileServing ==
  /\ [](pc = "serving" => model # None)
  /\ [][model' # model =>
          (model = None /\ pc = "load" /\ pc' = "serving" /\ model' = disk.content)]_vars
  /\ [][pc = "serving" => (pc' = "serving" /\ model' = model)]_vars
  /\ []((respG # None /\ respG.req \in GetRequests) =>
          (respG.resp.code = 200 /\ respG.resp.body.model_loaded))
  /\ [](Answered(respP) => respP.code # 503)
  /\ [](Answered(respS) => respS.code # 503)
  /\ [](Busy > 0 => model # None)

\* The service has answered /health and both prediction endpoints, one of
\* them with an error, and a handler is past the check of model
C22_Witness ==
  /\ respG # None /\ respG.req = <<"GET", "/health">>
  /\ Answered(respP) /\ Answered(respS)
  /\ respP.code = 500
  /\ worker[<<"predict_from_string", "try">>] > 0

\* wait_for_model returned False
WaitReturnedFalse == pc = "failed" /\ IsUnavailableError(startup_error)

\* C23: a wait that returns False has seen no file come into existence
\* strictly before its timeout elapsed (files are never removed), so a file
\* that appears between the last poll and the timeout is found.
C23_FoundIfBeforeTimeout ==
  WaitReturnedFalse =>
    (disk = None \/ disk.mtime - start_time >= cfg.MODEL_WAIT_TIMEOUT)

\* C24: when the loop of wait_for_model is reached for the first time, with
\* no sleep behind it, and the file is at the model path, the function
\* returns True, whatever the timeout, 0 included.
C24_FoundAtOnce ==
  [][(pc = "wait" /\ wake = 0 /\ now = start_time /\ disk # None /\ pc' # pc)
       => pc' = "load"]_vars

\* The tokens of the input that are no float literals
Words(s) ==
  LET parts == Parts(s)
  IN {parts[i] : i \in 1..Len(parts)} \ {tok \in {parts[i] : i \in 1..Len(parts)} : IsNumber(tok)}

\* The answer carries float's message about a token
IsFloatError(resp) ==
  /\ resp.code = 400
  /\ resp.detail # <<>>
  /\ resp.detail[1] = "could not convert string to float: '"

Converted(resp) == "float" \in {resp.stages[i] : i \in 1..Len(resp.stages)}

\* C25: with a predictor installed, an input whose count of non-blank tokens
\* is not 8 is answered 400 with the message that carries the count and no
\* token is converted, also when one of its tokens is no number; an answer
\* with float's message, and any conversion of tokens, happens only for an
\* input of exactly 8 tokens.
C25_CountBeforeParsing ==
  (Answered(respS) /\ model # None) =>
    LET n == TokenCount(payloadS)
    IN /\ (n # NumFeatures /\ Words(payloadS) # {}) =>
            /\ respS.code = 400
            /\ respS.detail = CountError(n)
            /\ ~IsFloatError(respS)
            /\ ~Converted(respS)
       /\ IsFloatError(respS) =>
            (n = NumFeatures /\ \E tok \in Words(payloadS) : respS.detail = FloatError(tok))
       /\ Converted(respS) => n = NumFeatures

\* A count error for an input of more than 8 tokens, one of them a word
C25_Witness ==
  /\ Answered(respS) /\ model # None
  /\ TokenCount(payloadS) > NumFeatures
  /\ <<"a", "b", "c">> \in Words(payloadS)
  /\ respS.detail = CountError(TokenCount(payloadS))

====
